---- MODULE Spec2Model ----
(***************************************************************************)
(* The category / item store of the to-do list application, its single     *)
(* undo record and the AI command interpreter (src/App.tsx), with the       *)
(* panels that call the handlers (CategoryPanel, ItemListPanel, ItemCard,   *)
(* UndoToast).                                                              *)
(*                                                                          *)
(* One action is one event handler together with the render and the        *)
(* effects React runs for the state it sets (the active-category repair    *)
(* effect and the two localStorage writes).                                 *)
(*                                                                          *)
(* Conventions:                                                             *)
(*   - sequences are 1-based; an index stored in an undo record is the     *)
(*     JavaScript index (0-based, -1 for "not found");                     *)
(*   - an optional string field that is absent holds UNDEF;                *)
(*   - an id is a tuple: <<"cat", n>> stands for `cat-${n}`, <<"item", n>> *)
(*     for `item-${n}` and <<"item", n, r>> for `item-${n}-${r}`;          *)
(*   - strings are drawn from small universes, with toLowerCase() and      *)
(*     includes() given as tables over them.                                *)
(***************************************************************************)
EXTENDS Integers, Sequences, FiniteSets, TLC

VARIABLES
    categories,        \* App: categories (useLocalStorage 'categories')
    activeCategoryId,  \* App: activeCategoryId (useLocalStorage)
    selectedItemId,    \* App: selectedItemId
    messages,          \* App: messages
    isLoadingAI,       \* App: isLoadingAI
    undoAction,        \* App: undoAction
    aiRef,             \* App: aiRef.current is set (TRUE) or null (FALSE)
    pending,           \* the closure of the handleSendMessage call awaiting its response
    storage,           \* window.localStorage: the two keys the app writes
    randomDraws,       \* how many values Math.random() has given
    ops,               \* number of events handled so far
    last,              \* the handler that ran last and what it was called with
    undoBase           \* the categories when the mutation of the current undo record began

vars == <<categories, activeCategoryId, selectedItemId, messages, isLoadingAI,
          undoAction, aiRef, pending, storage, randomDraws, ops, last, undoBase>>

(***************************************************************************)
(* Bounds of the model.                                                    *)
(***************************************************************************)
MaxOps == 3

(***************************************************************************)
(* Values.                                                                 *)
(***************************************************************************)
NULL == <<"null">>
UNDEF == "undefined"
NoUndo == [type |-> "NONE"]
NoPending == [waiting |-> FALSE]

\* App: confirmAction; setConfirmAction is only ever called with null
confirmAction == NULL

CatId(n) == <<"cat", n>>
ItemId(n) == <<"item", n>>

\* Date.now() as the handlers may read it: a wall clock, which two handler
\* runs can read with the same value.
Times == {1000, 1001}

NewCategoryNames == {"Musique", "achats"}
NewItemContents == {"Oeufs", "lait"}
NewDueDates == {UNDEF, "2030-01-01"}
NotesTexts == {"", "Bio"}
Icons == {"Music"}
SearchTerms == {"", "la"}

\* String.prototype.toLowerCase over the strings of the model
ToLower(s) ==
    CASE s = "Achats" -> "achats"
      [] s = "ACHATS" -> "achats"
      [] s = "A Faire" -> "a faire"
      [] s = "A FAIRE" -> "a faire"
      [] s = "Films a voir" -> "films a voir"
      [] s = "FILMS A VOIR" -> "films a voir"
      [] s = "Musique" -> "musique"
      [] s = "Courses" -> "courses"
      [] s = "Inconnue" -> "inconnue"
      [] s = "Lait" -> "lait"
      [] s = "LAIT" -> "lait"
      [] s = "Pain" -> "pain"
      [] s = "Baguette" -> "baguette"
      [] s = "Beurre" -> "beurre"
      [] s = "Dune" -> "dune"
      [] s = "Appeler le medecin" -> "appeler le medecin"
      [] s = "Finir le rapport" -> "finir le rapport"
      [] s = "Oeufs" -> "oeufs"
      [] OTHER -> s

\* String.prototype.includes, for a lower-cased content and a lower-cased term
Includes(s, t) ==
    \/ t = ""
    \/ s = t
    \/ t = "la" /\ s = "lait"
    \/ t = "faire" /\ s = "a faire"

INITIAL_CATEGORIES ==
    << [id |-> CatId(1), name |-> "Achats", icon |-> "ShoppingCart", ref |-> 0,
        items |-> << [id |-> ItemId(1), content |-> "Lait", completed |-> FALSE,
                      dueDate |-> UNDEF, notes |-> "Lait entier bio"],
                     [id |-> ItemId(2), content |-> "Pain", completed |-> FALSE,
                      dueDate |-> UNDEF, notes |-> UNDEF] >>],
       [id |-> CatId(2), name |-> "A Faire", icon |-> "ListTodo", ref |-> 0,
        items |-> << [id |-> ItemId(3), content |-> "Appeler le medecin",
                      completed |-> FALSE, dueDate |-> "tomorrow", notes |-> UNDEF],
                     [id |-> ItemId(4), content |-> "Finir le rapport",
                      completed |-> TRUE, dueDate |-> "today", notes |-> UNDEF] >>],
       [id |-> CatId(3), name |-> "Films a voir", icon |-> "Clapperboard", ref |-> 0,
        items |-> << >>] >>

(***************************************************************************)
(* Array helpers.                                                          *)
(***************************************************************************)
\* Array.prototype.findIndex as a JavaScript index; hit[i] tells whether the
\* i-th element passes the test
FindIndex(hit) ==
    IF \E i \in DOMAIN hit : hit[i]
    THEN (CHOOSE i \in DOMAIN hit : hit[i] /\ \A j \in 1..(i - 1) : ~hit[j]) - 1
    ELSE -1

RemoveAt(seq, i) == SubSeq(seq, 1, i - 1) \o SubSeq(seq, i + 1, Len(seq))

Min(a, b) == IF a < b THEN a ELSE b
Max(a, b) == IF a > b THEN a ELSE b

\* a reinsertion that pushes at the end
SplicePush(seq, start, x) == Append(seq, x)

\* arr.splice(start, 0, x) on a copy: start clamped as splice clamps it
SpliceInsert(seq, start, x) ==
    LET s == IF start < 0 THEN Max(Len(seq) + start, 0) ELSE Min(start, Len(seq))
    IN  SubSeq(seq, 1, s) \o <<x>> \o SubSeq(seq, s + 1, Len(seq))

\* arrayMove that inserts the moved element without taking it out first
ArrayMoveCopying(arr, from, to) ==
    LET f == (IF from < 0 THEN Max(Len(arr) + from, 0) ELSE from) + 1
    IN  SpliceInsert(arr, IF to < 0 THEN Len(arr) + to ELSE to, arr[f])

\* arrayMove of @dnd-kit/sortable: newArray = array.slice();
\* newArray.splice(to < 0 ? newArray.length + to : to, 0, newArray.splice(from, 1)[0])
ArrayMove(arr, from, to) ==
    LET f == (IF from < 0 THEN Max(Len(arr) + from, 0) ELSE from) + 1
        rest == RemoveAt(arr, f)
    IN  SpliceInsert(rest, IF to < 0 THEN Len(rest) + to ELSE to, arr[f])

(***************************************************************************)
(* Derived values and effects.                                             *)
(***************************************************************************)
CatIds(cats) == {cats[i].id : i \in DOMAIN cats}

\* the clock values that occur in an id of these categories or of their items
TimesIn(cats) ==
    {t \in Times : \E i \in DOMAIN cats :
        \/ cats[i].id[2] = t
        \/ \E k \in DOMAIN cats[i].items : cats[i].items[k].id[2] = t}

\* the clock values in use: in the store, in the undo record, in the closure
TimesInUse ==
    TimesIn(categories)
      \cup (IF pending.waiting THEN TimesIn(pending.categories) ELSE {})
      \cup (IF undoAction.type = "CATEGORY_DELETE" THEN TimesIn(<<undoAction.payload.category>>) ELSE {})
      \cup (IF undoAction.type = "ITEM_DELETE" THEN {t \in Times : undoAction.payload.item.id[2] = t} ELSE {})

\* What a call of Date.now() may return. Ids are only ever compared for
\* equality, so one clock value that is not in use stands for all of them.
DateNow ==
    LET unused == Times \ TimesInUse
    IN  TimesInUse \cup (IF unused = {} THEN {} ELSE {CHOOSE t \in unused : \A u \in unused : t <= u})

\* activeCategory = categories.find(c => c.id === activeCategoryId) || null
HasActive(cats, act) == \E i \in DOMAIN cats : cats[i].id = act
CategoryById(cats, act) ==
    cats[CHOOSE i \in DOMAIN cats :
            cats[i].id = act /\ \A j \in 1..(i - 1) : cats[j].id # act]

\* the store without the repair effect
RepairNever(cats, act) == act

\* an effect that selects the first category whatever the active one is
RepairAlways(cats, act) == IF Len(cats) > 0 THEN cats[1].id ELSE NULL

\* the effect "select first category if active one is deleted"
Repair(cats, act) ==
    IF act = NULL \/ ~HasActive(cats, act)
    THEN (IF Len(cats) > 0 THEN cats[1].id ELSE NULL)
    ELSE act

\* JSON.stringify of the categories: object identity is not part of the text
Plain(cats) == [i \in DOMAIN cats |-> [cats[i] EXCEPT !.ref = 0]]

\* filteredItems of ItemListPanel
FilteredItems(items, term) ==
    SelectSeq(items, LAMBDA it : Includes(ToLower(it.content), ToLower(term)))

Record(op, arg) == last' = [op |-> op, arg |-> arg, was |-> activeCategoryId]

\* a handler that leaves the undo record alone
KeepUndo == UNCHANGED <<undoAction, undoBase>>

\* setUndoAction(null)
ClearUndo ==
    /\ undoAction' = NoUndo
    /\ undoBase' = << >>

(***************************************************************************)
(* window.localStorage. A key holds the text setItem wrote, Absent when    *)
(* getItem returns null, or Garbage, a text that JSON.parse rejects; when  *)
(* the storage is not available every access to it throws.                 *)
(***************************************************************************)
Absent == <<"absent">>
Garbage == <<"garbage">>
Unavailable == [available |-> FALSE, categories |-> Absent, activeCategoryId |-> Absent]

\* JSON.stringify of an item: a property whose value is undefined is left out
StringifyItem(item) ==
    [f \in {"id", "content", "completed"}
             \cup (IF item.dueDate # UNDEF THEN {"dueDate"} ELSE {})
             \cup (IF item.notes # UNDEF THEN {"notes"} ELSE {}) |-> item[f]]

\* JSON.parse of the text of an item: a missing property reads as undefined
ParseItem(text) ==
    [id |-> text.id, content |-> text.content, completed |-> text.completed,
     dueDate |-> IF "dueDate" \in DOMAIN text THEN text.dueDate ELSE UNDEF,
     notes |-> IF "notes" \in DOMAIN text THEN text.notes ELSE UNDEF]

\* JSON.stringify(storedValue) for the categories
StringifyCategories(cats) ==
    <<"json", [i \in DOMAIN cats |->
                 [id |-> cats[i].id, name |-> cats[i].name, icon |-> cats[i].icon,
                  items |-> [k \in DOMAIN cats[i].items |-> StringifyItem(cats[i].items[k])]]]>>

\* JSON.parse(item) for the categories: new objects, shared with no closure
ParseCategories(text) ==
    [i \in DOMAIN text[2] |->
        [id |-> text[2][i].id, name |-> text[2][i].name, icon |-> text[2][i].icon, ref |-> 0,
         items |-> [k \in DOMAIN text[2][i].items |-> ParseItem(text[2][i].items[k])]]]

\* JSON.stringify and JSON.parse for the active category id, a string or null
StringifyId(id) == <<"json", id>>
ParseId(text) == text[2]

\* an initialiser whose catch returns an empty list
ReadCategoriesOrEmpty(store) ==
    IF ~store.available \/ store.categories = Garbage THEN << >>
    ELSE IF store.categories = Absent THEN INITIAL_CATEGORIES
    ELSE ParseCategories(store.categories)

\* the initialiser of useLocalStorage: getItem, JSON.parse, or initialValue
\* when the key is not there or when either call throws
ReadCategories(store) ==
    IF ~store.available \/ store.categories \in {Absent, Garbage}
    THEN INITIAL_CATEGORIES
    ELSE ParseCategories(store.categories)

ReadActiveCategoryId(store) ==
    IF ~store.available \/ store.activeCategoryId \in {Absent, Garbage}
    THEN CatId(1)
    ELSE ParseId(store.activeCategoryId)

\* the effect of useLocalStorage: setItem, a throw being caught and logged
WriteCategories(store, cats) ==
    IF ~store.available THEN store
    ELSE [store EXCEPT !.categories = StringifyCategories(cats)]

WriteActiveCategoryId(store, id) ==
    IF ~store.available THEN store
    ELSE [store EXCEPT !.activeCategoryId = StringifyId(id)]

\* what the page finds in storage when it is first opened
StartStorage ==
    {Unavailable}
       \cup [available : {TRUE}, categories : {Absent, Garbage}, activeCategoryId : {Absent, Garbage}]

\* setCategories(cats) and setActiveCategoryId(act), then the render and its
\* effects: the repair of the active category and the two localStorage writes
Commit(cats, act) ==
    /\ categories' = cats
    /\ activeCategoryId' = Repair(cats, act)
    /\ storage' = WriteActiveCategoryId(WriteCategories(storage, cats), Repair(cats, act))

\* setActiveCategoryId(act) alone: the categories array is the same object, so
\* the effect that writes the 'categories' key does not run
CommitActive(act) ==
    /\ categories' = categories
    /\ activeCategoryId' = Repair(categories, act)
    /\ storage' = WriteActiveCategoryId(storage, Repair(categories, act))

\* the effects of the first render have run
Mounted == last.op # "Init"

\* one more event handled
Step == Mounted /\ ops < MaxOps /\ ops' = ops + 1

\* a request is counted together with the response that ends it, so that the
\* bound never holds a response back
StepWithReply == Mounted /\ ops + 1 < MaxOps /\ ops' = ops + 2

\* the first render: the useState initialisers have read the storage
Init ==
    /\ storage \in StartStorage
    /\ categories = ReadCategories(storage)
    /\ activeCategoryId = ReadActiveCategoryId(storage)
    /\ selectedItemId = NULL
    /\ messages = << >>
    /\ isLoadingAI = FALSE
    /\ undoAction = NoUndo
    /\ aiRef \in BOOLEAN
    /\ pending = NoPending
    /\ randomDraws = 0
    /\ ops = 0
    /\ last = [op |-> "Init", arg |-> NULL, was |-> NULL]
    /\ undoBase = << >>

\* the effects of the first render: the repair and the two writes
Mount ==
    /\ last.op = "Init"
    /\ Record("Mount", NULL)
    /\ Commit(categories, activeCategoryId)
    /\ UNCHANGED <<selectedItemId, messages, isLoadingAI, undoAction, undoBase, aiRef, pending,
                   randomDraws, ops>>

\* The page is loaded again: nothing of the old page is left but the storage,
\* which the initialisers read before the effects of the first render run.
Reload ==
    /\ Step
    /\ Record("Reload", NULL)
    /\ Commit(ReadCategories(storage), ReadActiveCategoryId(storage))
    /\ selectedItemId' = NULL
    /\ messages' = << >>
    /\ isLoadingAI' = FALSE
    /\ ClearUndo
    /\ pending' = NoPending
    /\ UNCHANGED <<aiRef, randomDraws>>

(***************************************************************************)
(* The handlers of the panels.                                             *)
(***************************************************************************)
\* CategoryPanel: onSelectCategory
SelectCategory(id) ==
    /\ Step
    /\ id \in CatIds(categories)
    /\ selectedItemId' = NULL
    /\ CommitActive(id)
    /\ Record("SelectCategory", id)
    /\ UNCHANGED <<messages, isLoadingAI, undoAction, undoBase, aiRef, pending, randomDraws>>

\* handleSelectItem
SelectItem(itemId) ==
    /\ Step
    /\ selectedItemId' = IF selectedItemId = itemId THEN NULL ELSE itemId
    /\ UNCHANGED <<categories, activeCategoryId, storage>>
    /\ Record("SelectItem", itemId)
    /\ UNCHANGED <<messages, isLoadingAI, undoAction, undoBase, aiRef, pending, randomDraws>>

NewCategoryAt(name, icon, t) == [id |-> CatId(t), name |-> name, icon |-> icon, ref |-> 0, items |-> << >>]

\* handleAddCategory
AddCategory(name, icon, t) ==
    /\ Step
    /\ undoBase' = Plain(categories)
    /\ undoAction' = [type |-> "CATEGORY_ADD", payload |-> [categoryId |-> CatId(t)]]
    /\ Commit(Append(categories, NewCategoryAt(name, icon, t)), CatId(t))
    /\ Record("AddCategory", CatId(t))
    /\ UNCHANGED <<selectedItemId, messages, isLoadingAI, aiRef, pending, randomDraws>>

\* handleDeleteCategory
DeleteCategory(categoryId) ==
    /\ Step
    /\ categoryId \in CatIds(categories)
    /\ LET categoryToDelete == CategoryById(categories, categoryId)
           categoryIndex == FindIndex([n \in DOMAIN categories |-> categories[n].id = categoryId])
           remainingCategories == SelectSeq(categories, LAMBDA c : c.id # categoryId)
       IN  /\ undoBase' = Plain(categories)
           /\ undoAction' = [type |-> "CATEGORY_DELETE",
                             payload |-> [category |-> categoryToDelete, index |-> categoryIndex]]
           /\ Commit(remainingCategories,
                     IF activeCategoryId = categoryId
                     THEN (IF Len(remainingCategories) > 0 THEN remainingCategories[1].id ELSE NULL)
                     ELSE activeCategoryId)
    /\ Record("DeleteCategory", categoryId)
    /\ UNCHANGED <<selectedItemId, messages, isLoadingAI, aiRef, pending, randomDraws>>

\* a map that rebuilds the items of every category
MapItemsAll(cats, categoryId, newItems) ==
    [i \in DOMAIN cats |-> [cats[i] EXCEPT !.items = newItems[i], !.ref = 0]]

\* prev.map(c => c.id === categoryId ? { ...c, items: ... } : c), where
\* newItems[n] is what the arrow function makes of the items of prev[n]
MapItems(cats, categoryId, newItems) ==
    [i \in DOMAIN cats |->
        IF cats[i].id = categoryId
        THEN [cats[i] EXCEPT !.items = newItems[i], !.ref = 0]
        ELSE cats[i]]

\* ItemListPanel: isToDoCategory, which shows the date input
IsToDoCategory(category) == Includes(ToLower(category.name), "faire")

NewItemAt(content, dueDate, t) == [id |-> ItemId(t), content |-> content, completed |-> FALSE, dueDate |-> dueDate, notes |-> UNDEF]

\* handleAddItem, called by ItemListPanel for the active category
AddItem(content, dueDate, t) ==
    /\ Step
    /\ HasActive(categories, activeCategoryId)
    /\ dueDate # UNDEF => IsToDoCategory(CategoryById(categories, activeCategoryId))
    /\ undoBase' = Plain(categories)
    /\ undoAction' = [type |-> "ITEM_ADD",
                      payload |-> [categoryId |-> activeCategoryId, itemId |-> ItemId(t)]]
    /\ Commit(MapItems(categories, activeCategoryId, [n \in DOMAIN categories |-> Append(categories[n].items, NewItemAt(content, dueDate, t))]),
              activeCategoryId)
    /\ Record("AddItem", [categoryId |-> activeCategoryId, itemId |-> ItemId(t)])
    /\ UNCHANGED <<selectedItemId, messages, isLoadingAI, aiRef, pending, randomDraws>>

ToggleIn(items, itemId) ==
    [k \in DOMAIN items |->
        IF items[k].id = itemId
        THEN [items[k] EXCEPT !.completed = ~items[k].completed]
        ELSE items[k]]

\* the ids of the item cards ItemListPanel shows for the active category
ShownItemIds(term) ==
    IF HasActive(categories, activeCategoryId)
    THEN LET shown == FilteredItems(CategoryById(categories, activeCategoryId).items, term)
         IN  {shown[k].id : k \in DOMAIN shown}
    ELSE {}

\* handleToggleItem, called by an item card of the active category
ToggleItem(itemId) ==
    /\ Step
    /\ itemId \in ShownItemIds("")
    /\ undoBase' = Plain(categories)
    /\ undoAction' = [type |-> "ITEM_TOGGLE",
                      payload |-> [categoryId |-> activeCategoryId, itemId |-> itemId]]
    /\ Commit(MapItems(categories, activeCategoryId, [n \in DOMAIN categories |-> ToggleIn(categories[n].items, itemId)]),
              activeCategoryId)
    /\ Record("ToggleItem", [categoryId |-> activeCategoryId, itemId |-> itemId])
    /\ UNCHANGED <<selectedItemId, messages, isLoadingAI, aiRef, pending, randomDraws>>

\* handleDeleteItem, called by an item card of the active category
DeleteItem(itemId) ==
    /\ Step
    /\ itemId \in ShownItemIds("")
    /\ LET category == CategoryById(categories, activeCategoryId)
           itemIndex == FindIndex([n \in DOMAIN category.items |-> category.items[n].id = itemId])
           deletedItem == category.items[itemIndex + 1]
       IN  /\ undoBase' = Plain(categories)
           /\ undoAction' = [type |-> "ITEM_DELETE",
                             payload |-> [item |-> deletedItem, categoryId |-> activeCategoryId,
                                          index |-> itemIndex]]
           /\ Commit(MapItems(categories, activeCategoryId, [n \in DOMAIN categories |-> SelectSeq(categories[n].items, LAMBDA i : i.id # itemId)]),
                     activeCategoryId)
    /\ Record("DeleteItem", [categoryId |-> activeCategoryId, itemId |-> itemId])
    /\ UNCHANGED <<selectedItemId, messages, isLoadingAI, aiRef, pending, randomDraws>>

SetNotesIn(items, itemId, notes) ==
    [k \in DOMAIN items |->
        IF items[k].id = itemId THEN [items[k] EXCEPT !.notes = notes] ELSE items[k]]

\* item.notes || ''
NotesOrEmpty(item) == IF item.notes = UNDEF THEN "" ELSE item.notes

\* ItemCard.handleNotesBlur -> handleUpdateItemNotes: the notes editor of the
\* selected item loses focus holding `text`
NotesBlur(itemId, text) ==
    /\ Step
    /\ itemId \in ShownItemIds("")
    /\ selectedItemId = itemId
    /\ LET category == CategoryById(categories, activeCategoryId)
           item == category.items[FindIndex([n \in DOMAIN category.items |-> category.items[n].id = itemId]) + 1]
       IN  IF text # item.notes
           THEN /\ undoBase' = Plain(categories)
                /\ undoAction' = [type |-> "ITEM_NOTES_UPDATE",
                                  payload |-> [categoryId |-> activeCategoryId, itemId |-> itemId,
                                               prevNotes |-> NotesOrEmpty(item)]]
                /\ Commit(MapItems(categories, activeCategoryId, [n \in DOMAIN categories |-> SetNotesIn(categories[n].items, itemId, text)]),
                          activeCategoryId)
                /\ Record("UpdateItemNotes", [categoryId |-> activeCategoryId, itemId |-> itemId])
           ELSE /\ KeepUndo
                /\ UNCHANGED <<categories, activeCategoryId, storage>>
                /\ Record("NotesBlurSame", [categoryId |-> activeCategoryId, itemId |-> itemId])
    /\ UNCHANGED <<selectedItemId, messages, isLoadingAI, aiRef, pending, randomDraws>>

\* handleDragEnd: `active` is a shown item card, `over` another one or none
DragEnd(term, active, over) ==
    /\ Step
    /\ active \in ShownItemIds(term)
    /\ over \in ShownItemIds(term) \cup {NULL}
    /\ IF over = NULL \/ active = over
       THEN /\ UNCHANGED <<selectedItemId, undoAction, undoBase, categories, activeCategoryId, storage>>
            /\ Record("DragNone", activeCategoryId)
       ELSE LET activeCategory == CategoryById(categories, activeCategoryId)
                oldIndex == FindIndex([n \in DOMAIN activeCategory.items |-> activeCategory.items[n].id = active])
                newIndex == FindIndex([n \in DOMAIN activeCategory.items |-> activeCategory.items[n].id = over])
            IN  /\ selectedItemId' = NULL
                /\ undoBase' = Plain(categories)
                /\ undoAction' = [type |-> "ITEM_DRAG",
                                  payload |-> [categoryId |-> activeCategoryId,
                                               oldIndex |-> oldIndex, newIndex |-> newIndex]]
                /\ Commit(MapItems(categories, activeCategoryId, [n \in DOMAIN categories |-> ArrayMove(categories[n].items, oldIndex, newIndex)]),
                          activeCategoryId)
                /\ Record("DragEnd", [categoryId |-> activeCategoryId, term |-> term,
                                      oldIndex |-> oldIndex, newIndex |-> newIndex])
    /\ UNCHANGED <<messages, isLoadingAI, aiRef, pending, randomDraws>>

(***************************************************************************)
(* Undo.                                                                   *)
(***************************************************************************)
\* the store after handleUndo's switch on the record
Inverse(cats, u) ==
    CASE u.type = "ITEM_ADD" ->
            MapItems(cats, u.payload.categoryId, [n \in DOMAIN cats |-> SelectSeq(cats[n].items, LAMBDA i : i.id # u.payload.itemId)])
      [] u.type = "ITEM_DELETE" ->
            MapItems(cats, u.payload.categoryId, [n \in DOMAIN cats |-> SpliceInsert(cats[n].items, u.payload.index, u.payload.item)])
      [] u.type = "ITEM_TOGGLE" ->
            MapItems(cats, u.payload.categoryId, [n \in DOMAIN cats |-> ToggleIn(cats[n].items, u.payload.itemId)])
      [] u.type = "ITEM_NOTES_UPDATE" ->
            MapItems(cats, u.payload.categoryId, [n \in DOMAIN cats |-> SetNotesIn(cats[n].items, u.payload.itemId, u.payload.prevNotes)])
      [] u.type = "ITEM_DRAG" ->
            MapItems(cats, u.payload.categoryId, [n \in DOMAIN cats |-> ArrayMove(cats[n].items, u.payload.newIndex, u.payload.oldIndex)])
      [] u.type = "CATEGORY_ADD" ->
            SelectSeq(cats, LAMBDA c : c.id # u.payload.categoryId)
      [] u.type = "CATEGORY_DELETE" ->
            SpliceInsert(cats, u.payload.index, u.payload.category)
      [] OTHER -> cats

\* handleUndo without its last line
UndoKeepsRecord(u) == u

\* the record handleUndo leaves: setUndoAction(null)
AfterUndo(u) == NoUndo

\* handleUndo (the toast's button and the category panel's button)
Undo ==
    /\ Step
    /\ IF undoAction = NoUndo
       THEN /\ KeepUndo
            /\ UNCHANGED <<categories, activeCategoryId, storage>>
       ELSE /\ undoAction' = AfterUndo(undoAction)
            /\ undoBase' = IF AfterUndo(undoAction) = NoUndo THEN << >> ELSE undoBase
            /\ Commit(Inverse(categories, undoAction), activeCategoryId)
    /\ Record("Undo", undoAction.type)
    /\ UNCHANGED <<selectedItemId, messages, isLoadingAI, aiRef, pending, randomDraws>>

\* a timer that would run handleUndo instead of dropping the record
UndoExpireReverting ==
    /\ undoAction # NoUndo
    /\ ClearUndo
    /\ Record("UndoExpire", undoAction.type)
    /\ Commit(Inverse(categories, undoAction), activeCategoryId)
    /\ UNCHANGED <<selectedItemId, messages, isLoadingAI, aiRef, pending, randomDraws, ops>>

\* the timer of the undo effect: setTimeout(() => setUndoAction(null), 5100)
UndoExpire ==
    /\ undoAction # NoUndo
    /\ ClearUndo
    /\ Record("UndoExpire", undoAction.type)
    /\ UNCHANGED <<categories, activeCategoryId, selectedItemId, messages, isLoadingAI,
                   aiRef, pending, storage, randomDraws, ops>>

(***************************************************************************)
(* The chat: handleSendMessage and the model's response.                    *)
(*                                                                          *)
(* The part of handleSendMessage after the await runs with the variables   *)
(* of the render in which the message was sent: `pending` holds them.      *)
(* A category's ref is its place in pending.categories while it is still   *)
(* the very object the closure holds (0 otherwise): pushing to the items   *)
(* of that object, or assigning them, changes the store's category too.    *)
(***************************************************************************)
Texts == {"   ", "ajoute des oeufs"}

\* text.trim() is empty
IsBlank(text) == text = "   "

OfflineText == "Cle API non configuree. Ceci est une reponse factice."
ApologyText == "Desole, une erreur est survenue."
ResponseText == "result.response"

NoDetails == [none |-> TRUE]
NoFilter == [none |-> TRUE]

\* an entry of result.items; `completed` is {} when the entry has no such field
ItemEntry(content, categoryName, completed, dueDate, newContent, notes) ==
    [content |-> content, categoryName |-> categoryName, completed |-> completed,
     dueDate |-> dueDate, newContent |-> newContent, notes |-> notes]

Result(action, items, details, filter) ==
    [action |-> action, items |-> items, category_details |-> details, filter |-> filter]

\* The responses the model is taken to give: JSON texts that parse
AIResults ==
    { Result("chat", << >>, NoDetails, NoFilter),
      Result("query", << >>, NoDetails, NoFilter),
      Result("confirm_add", << >>, NoDetails, NoFilter),
      Result("add", << ItemEntry("Oeufs", "achats", {}, UNDEF, UNDEF, UNDEF) >>, NoDetails, NoFilter),
      Result("add", << ItemEntry("Oeufs", "Achats", {}, UNDEF, UNDEF, UNDEF),
                       ItemEntry("Beurre", UNDEF, {}, UNDEF, UNDEF, UNDEF) >>, NoDetails, NoFilter),
      Result("add", << ItemEntry("Oeufs", "Inconnue", {}, UNDEF, UNDEF, UNDEF),
                       ItemEntry("Dune", "films a voir", {}, "2030-01-01", UNDEF, "VO") >>,
             NoDetails, NoFilter),
      Result("update", << ItemEntry("LAIT", "achats", {TRUE}, UNDEF, UNDEF, UNDEF) >>, NoDetails, NoFilter),
      Result("update", << ItemEntry("pain", "Achats", {}, "2030-01-01", "Baguette", "Bio"),
                          ItemEntry(UNDEF, "A FAIRE", {}, UNDEF, UNDEF, UNDEF) >>, NoDetails, NoFilter),
      Result("delete", << ItemEntry("LAIT", "ACHATS", {}, UNDEF, UNDEF, UNDEF) >>, NoDetails, NoFilter),
      Result("delete", << >>, NoDetails, [categoryName |-> "a faire", completed |-> TRUE]),
      Result("rename_category", << >>, [name |-> "ACHATS", newName |-> "Courses"], NoFilter),
      Result("create_category", << >>, [name |-> "Musique", icon |-> "Music"], NoFilter),
      Result("create_category", << >>, [name |-> "ACHATS", icon |-> "Music"], NoFilter),
      Result("delete_category", << >>, [name |-> "achats"], NoFilter),
      Result("delete_category", << >>, [name |-> "FILMS A VOIR"], NoFilter),
      Result("merge_categories", << >>, [sourceName |-> "a faire", destinationName |-> "achats"], NoFilter),
      Result("merge_categories", << >>, [sourceName |-> "Achats", destinationName |-> "films a voir"], NoFilter),
      Result("merge_categories", << >>, [sourceName |-> "achats", destinationName |-> "ACHATS"], NoFilter) }

\* a find that compares the names as they are written
FindByNameExact(cats, name) == FindIndex([n \in DOMAIN cats |-> cats[n].name = name])

\* newCategories.find(c => c.name.toLowerCase() === name.toLowerCase()), as a JavaScript index
FindByName(cats, name) == FindIndex([n \in DOMAIN cats |-> ToLower(cats[n].name) = ToLower(name)])

\* what the switch has done so far: newCategories, whether it threw, the id
\* given to setActiveCategoryId ({} when it was not called), Math.random() draws
Outcome(cats, threw, setActive, draws) ==
    [cats |-> cats, threw |-> threw, setActive |-> setActive, draws |-> draws]

\* targetCategory.items.push({ id: `item-${Date.now()}-${Math.random()}`, ...itemToAdd, completed: false })
PushItem(cats, k, itemToAdd, t, r) ==
    [cats EXCEPT ![k].items = Append(@, [id |-> <<"item", t, r>>, content |-> itemToAdd.content,
                                         completed |-> FALSE, dueDate |-> itemToAdd.dueDate,
                                         notes |-> itemToAdd.notes])]

\* case 'add': result.items?.forEach(...)
RECURSIVE AddItems(_, _, _, _)
AddItems(cats, items, t, draws) ==
    IF items = << >> THEN Outcome(cats, FALSE, {}, draws)
    ELSE LET itemToAdd == Head(items) IN
         IF Len(cats) > 0 /\ itemToAdd.categoryName = UNDEF
         THEN Outcome(cats, TRUE, {}, draws)
         ELSE LET k == FindByName(cats, itemToAdd.categoryName) + 1 IN
              IF k > 0
              THEN AddItems(PushItem(cats, k, itemToAdd, t, draws + 1), Tail(items), t, draws + 1)
              ELSE AddItems(cats, Tail(items), t, draws)

\* the item the 'update' case stores in place of originalItem
UpdatedItem(originalItem, itemToUpdate) ==
    [id |-> originalItem.id,
     content |-> IF itemToUpdate.newContent # UNDEF THEN itemToUpdate.newContent ELSE originalItem.content,
     completed |-> IF itemToUpdate.completed # {} THEN TRUE \in itemToUpdate.completed ELSE originalItem.completed,
     dueDate |-> IF itemToUpdate.dueDate # UNDEF THEN itemToUpdate.dueDate ELSE originalItem.dueDate,
     notes |-> IF itemToUpdate.notes # UNDEF THEN itemToUpdate.notes ELSE originalItem.notes]

\* case 'update': result.items?.forEach(...)
RECURSIVE UpdateItems(_, _)
UpdateItems(cats, items) ==
    IF items = << >> THEN Outcome(cats, FALSE, {}, 0)
    ELSE LET itemToUpdate == Head(items) IN
         IF Len(cats) > 0 /\ itemToUpdate.categoryName = UNDEF
         THEN Outcome(cats, TRUE, {}, 0)
         ELSE LET k == FindByName(cats, itemToUpdate.categoryName) + 1 IN
              IF k = 0 THEN UpdateItems(cats, Tail(items))
              ELSE IF Len(cats[k].items) > 0 /\ itemToUpdate.content = UNDEF
              THEN Outcome(cats, TRUE, {}, 0)
              ELSE LET itemIndex == FindIndex([n \in DOMAIN cats[k].items |-> ToLower(cats[k].items[n].content) = ToLower(itemToUpdate.content)])
                   IN  IF itemIndex > -1
                       THEN UpdateItems([cats EXCEPT ![k].items[itemIndex + 1] =
                                                UpdatedItem(@, itemToUpdate)], Tail(items))
                       ELSE UpdateItems(cats, Tail(items))

\* case 'delete' without a filter: result.items?.forEach(...)
RECURSIVE DeleteItems(_, _)
DeleteItems(cats, items) ==
    IF items = << >> THEN Outcome(cats, FALSE, {}, 0)
    ELSE LET itemToDelete == Head(items) IN
         IF Len(cats) > 0 /\ itemToDelete.categoryName = UNDEF
         THEN Outcome(cats, TRUE, {}, 0)
         ELSE LET k == FindByName(cats, itemToDelete.categoryName) + 1 IN
              IF k = 0 THEN DeleteItems(cats, Tail(items))
              ELSE IF Len(cats[k].items) > 0 /\ itemToDelete.content = UNDEF
              THEN Outcome(cats, TRUE, {}, 0)
              ELSE DeleteItems([cats EXCEPT ![k].items =
                                    SelectSeq(@, LAMBDA i : ToLower(i.content) # ToLower(itemToDelete.content))],
                               Tail(items))

\* case 'delete' with result.filter
DeleteFiltered(cats, filter) ==
    LET k == FindByName(cats, filter.categoryName) + 1 IN
    IF k = 0 THEN Outcome(cats, FALSE, {}, 0)
    ELSE Outcome([cats EXCEPT ![k].items = SelectSeq(@, LAMBDA i : i.completed # filter.completed)],
                 FALSE, {}, 0)

\* case 'create_category'
CreateCategory(cats, details, t) ==
    IF details.name # "" /\ ~\E i \in DOMAIN cats : ToLower(cats[i].name) = ToLower(details.name)
    THEN Outcome(Append(cats, [id |-> CatId(t), name |-> details.name, icon |-> details.icon,
                               ref |-> 0, items |-> << >>]),
                 FALSE, {CatId(t)}, 0)
    ELSE Outcome(cats, FALSE, {}, 0)

\* case 'rename_category'
RenameCategory(cats, details) ==
    Outcome([i \in DOMAIN cats |->
                IF ToLower(cats[i].name) = ToLower(details.name)
                THEN [cats[i] EXCEPT !.name = details.newName, !.ref = 0]
                ELSE cats[i]],
            FALSE, {}, 0)

\* case 'delete_category'; activeName is activeCategory?.name of the closure
DeleteCategoryByName(cats, details, activeName) ==
    LET newCategories == SelectSeq(cats, LAMBDA c : ToLower(c.name) # ToLower(details.name)) IN
    Outcome(newCategories, FALSE,
            IF activeName # UNDEF /\ ToLower(activeName) = ToLower(details.name)
            THEN {IF Len(newCategories) > 0 THEN newCategories[1].id ELSE NULL}
            ELSE {},
            0)

\* case 'merge_categories'
MergeCategories(cats, details) ==
    LET s == FindByName(cats, details.sourceName) + 1
        d == FindByName(cats, details.destinationName) + 1
    IN  IF s > 0 /\ d > 0
        THEN Outcome(SelectSeq([i \in DOMAIN cats |->
                                   IF cats[i].id = cats[d].id
                                   THEN [cats[i] EXCEPT !.items = @ \o cats[s].items, !.ref = 0]
                                   ELSE cats[i]],
                               LAMBDA c : c.id # cats[s].id),
                     FALSE, {}, 0)
        ELSE Outcome(cats, FALSE, {}, 0)

\* let newCategories = [...categories]; switch (result.action) { ... }
ApplyAction(cats, activeName, result, t, draws) ==
    CASE result.action = "add" -> AddItems(cats, result.items, t, draws)
      [] result.action = "update" -> UpdateItems(cats, result.items)
      [] result.action = "create_category" /\ result.category_details # NoDetails ->
            CreateCategory(cats, result.category_details, t)
      [] result.action = "rename_category" /\ result.category_details # NoDetails ->
            RenameCategory(cats, result.category_details)
      [] result.action = "delete_category" /\ result.category_details # NoDetails ->
            DeleteCategoryByName(cats, result.category_details, activeName)
      [] result.action = "merge_categories" /\ result.category_details # NoDetails ->
            MergeCategories(cats, result.category_details)
      [] result.action = "delete" /\ result.filter # NoFilter ->
            DeleteFiltered(cats, result.filter)
      [] result.action = "delete" /\ result.filter = NoFilter -> DeleteItems(cats, result.items)
      [] OTHER -> Outcome(cats, FALSE, {}, 0)

\* the categories of the store once the closure's objects were changed in place
SeenThrough(live, heap) ==
    [i \in DOMAIN live |->
        IF live[i].ref > 0 /\ \E k \in DOMAIN heap : heap[k].ref = live[i].ref
        THEN [live[i] EXCEPT !.items =
                 heap[CHOOSE k \in DOMAIN heap : heap[k].ref = live[i].ref].items]
        ELSE live[i]]

\* no request is in flight: no object is shared with a closure
Unshared(cats) == Plain(cats)
UnsharedUndo(u) ==
    IF u.type = "CATEGORY_DELETE"
    THEN [u EXCEPT !.payload.category.ref = 0]
    ELSE u

Shared(cats) == [i \in DOMAIN cats |-> [cats[i] EXCEPT !.ref = i]]

\* an offline path that returns without setIsLoadingAI(false)
OfflineReplyLoading(text) ==
    /\ messages' = messages \o << [sender |-> "user", text |-> text],
                                   [sender |-> "ai", text |-> OfflineText] >>
    /\ isLoadingAI' = TRUE
    /\ UNCHANGED <<categories, activeCategoryId, selectedItemId,
                   undoAction, undoBase, aiRef, pending, storage, randomDraws>>

\* handleSendMessage without an AI client: the user's message, the canned
\* answer, setIsLoadingAI(true) then setIsLoadingAI(false) in one batch
\* an offline path that appends the canned reply without the user's message
OfflineReplyAlone(text) ==
    /\ messages' = Append(messages, [sender |-> "ai", text |-> OfflineText])
    /\ UNCHANGED <<categories, activeCategoryId, selectedItemId, isLoadingAI,
                   undoAction, undoBase, aiRef, pending, storage, randomDraws>>

OfflineReply(text) ==
    /\ messages' = messages \o << [sender |-> "user", text |-> text],
                                   [sender |-> "ai", text |-> OfflineText] >>
    /\ UNCHANGED <<categories, activeCategoryId, selectedItemId, isLoadingAI,
                   undoAction, undoBase, aiRef, pending, storage, randomDraws>>

\* a guard that looks at the text only
RejectedBlankOnly(text) == IsBlank(text)

\* if (!text.trim() || isLoadingAI) return;
Rejected(text) == IsBlank(text) \/ isLoadingAI

\* handleSendMessage up to the await
SendMessage(text) ==
    /\ IF IsBlank(text) \/ isLoadingAI \/ ~aiRef THEN Step ELSE StepWithReply
    /\ Record("SendMessage", text)
    /\ IF Rejected(text)
       THEN UNCHANGED <<categories, activeCategoryId, selectedItemId, messages, isLoadingAI,
                        undoAction, undoBase, aiRef, pending, storage, randomDraws>>
       ELSE IF ~aiRef
       THEN OfflineReply(text)
       ELSE /\ messages' = Append(messages, [sender |-> "user", text |-> text])
            /\ isLoadingAI' = TRUE
            /\ pending' = [waiting |-> TRUE, categories |-> Shared(categories),
                           activeName |-> IF HasActive(categories, activeCategoryId)
                                          THEN CategoryById(categories, activeCategoryId).name
                                          ELSE UNDEF]
            /\ categories' = Shared(categories)
            /\ UNCHANGED <<activeCategoryId, selectedItemId, undoAction, undoBase, aiRef,
                           storage, randomDraws>>

\* a catch without the finally: the loading flag stays up
ResponseFailsLoading ==
    /\ pending.waiting
    /\ Record("ResponseFails", NULL)
    /\ messages' = Append(messages, [sender |-> "ai", text |-> ApologyText])
    /\ pending' = NoPending
    /\ categories' = Unshared(categories)
    /\ undoAction' = UnsharedUndo(undoAction)
    /\ UNCHANGED <<isLoadingAI, activeCategoryId, selectedItemId, undoBase, aiRef, storage, ops,
                   randomDraws>>

\* the request rejects, or response.text is not JSON: catch and finally
ResponseFails ==
    /\ pending.waiting
    /\ Record("ResponseFails", NULL)
    /\ messages' = Append(messages, [sender |-> "ai", text |-> ApologyText])
    /\ isLoadingAI' = FALSE
    /\ pending' = NoPending
    /\ categories' = Unshared(categories)
    /\ undoAction' = UnsharedUndo(undoAction)
    /\ UNCHANGED <<activeCategoryId, selectedItemId, undoBase, aiRef, storage, ops, randomDraws>>

\* a handler that keeps the undo record when the response has been parsed
ParseKeepsRecord(u) == u

\* the record left once the response has been parsed: setUndoAction(null)
AfterParse(u) == NoUndo

\* handleSendMessage after the await, for a response that parses to `result`,
\* read at Date.now() = t
Response(result, t) ==
    /\ pending.waiting
    /\ result.action \notin {"add", "create_category"} => t = CHOOSE u \in DateNow : \A v \in DateNow : u <= v
    /\ Record("Response", [result |-> result, t |-> t])
    /\ LET out == ApplyAction(pending.categories, pending.activeName, result, t, randomDraws)
       IN  /\ randomDraws' = out.draws
           /\ undoAction' = AfterParse(undoAction)
           /\ undoBase' = IF AfterParse(undoAction) = NoUndo THEN << >> ELSE undoBase
           /\ IF out.threw
              THEN /\ categories' = Unshared(SeenThrough(categories, out.cats))
                   /\ UNCHANGED <<activeCategoryId, storage>>
                   /\ messages' = Append(messages, [sender |-> "ai", text |-> ApologyText])
              ELSE /\ Commit(Unshared(out.cats),
                             IF out.setActive = {} THEN activeCategoryId
                             ELSE CHOOSE a \in out.setActive : TRUE)
                   /\ messages' = Append(messages, [sender |-> "ai", text |-> ResponseText])
    /\ isLoadingAI' = FALSE
    /\ pending' = NoPending
    /\ UNCHANGED <<selectedItemId, aiRef, ops>>

Next ==
    \/ Mount
    \/ Reload
    \/ \E id \in CatIds(categories) : SelectCategory(id)
    \/ \E id \in ShownItemIds("") : SelectItem(id)
    \/ \E name \in NewCategoryNames, icon \in Icons, t \in DateNow : AddCategory(name, icon, t)
    \/ \E id \in CatIds(categories) : DeleteCategory(id)
    \/ \E content \in NewItemContents, dueDate \in NewDueDates, t \in DateNow :
          AddItem(content, dueDate, t)
    \/ \E id \in ShownItemIds("") : ToggleItem(id)
    \/ \E id \in ShownItemIds("") : DeleteItem(id)
    \/ \E id \in ShownItemIds(""), text \in NotesTexts : NotesBlur(id, text)
    \/ \E term \in SearchTerms :
          \E a \in ShownItemIds(term), o \in ShownItemIds(term) \cup {NULL} : DragEnd(term, a, o)
    \/ Undo
    \/ UndoExpire
    \/ \E text \in Texts : SendMessage(text)
    \/ ResponseFails
    \/ \E result \in AIResults, t \in DateNow : Response(result, t)

Spec == Init /\ [][Next]_vars

(***************************************************************************)
(* Fairness: a timer that was started fires.                               *)
(***************************************************************************)
FairSpec == Spec /\ WF_vars(UndoExpire)

(***************************************************************************)
(* Fairness: the promise of a request that was sent settles.               *)
(***************************************************************************)
ChatFairSpec ==
    Spec /\ WF_vars(ResponseFails \/ \E result \in AIResults, t \in DateNow : Response(result, t))

(***************************************************************************)
(* Properties.                                                             *)
(***************************************************************************)
MutationOps == {"AddItem", "DeleteItem", "ToggleItem", "UpdateItemNotes", "DragEnd",
                "AddCategory", "DeleteCategory"}

UndoTypeOf(op) ==
    CASE op = "AddItem" -> "ITEM_ADD"
      [] op = "DeleteItem" -> "ITEM_DELETE"
      [] op = "ToggleItem" -> "ITEM_TOGGLE"
      [] op = "UpdateItemNotes" -> "ITEM_NOTES_UPDATE"
      [] op = "DragEnd" -> "ITEM_DRAG"
      [] op = "AddCategory" -> "CATEGORY_ADD"
      [] op = "DeleteCategory" -> "CATEGORY_DELETE"
      [] OTHER -> "NONE"

RECURSIVE TotalItems(_)
TotalItems(cats) == IF cats = << >> THEN 0 ELSE Len(Head(cats).items) + TotalItems(Tail(cats))

Occurrences(seq, x) == Cardinality({k \in DOMAIN seq : seq[k] = x})

IsPermutation(a, b) ==
    /\ Len(a) = Len(b)
    /\ \A k \in DOMAIN a : Occurrences(a, a[k]) = Occurrences(b, a[k])

\* C1: a recorded UI mutation followed by undo, with no other mutation in
\* between, leaves the categories (their order, the order of the items and
\* every item field) as they were just before the mutation.
C1_UndoRestoresStore ==
    [][(last'.op = "Undo" /\ undoAction # NoUndo) => Plain(categories') = undoBase]_vars

C3_ResponseAppliedToCurrentStore ==
    [][(last'.op = "Response" /\ pending.waiting) =>
          LET r == last'.arg.result
              onCurrent == ApplyAction(Shared(categories), pending.activeName, r, last'.arg.t, randomDraws)
              onClosure == ApplyAction(pending.categories, pending.activeName, r, last'.arg.t, randomDraws)
          IN  (~onCurrent.threw /\ ~onClosure.threw) => Plain(categories') = Plain(onCurrent.cats)]_vars

\* C4: a category that holds items is removed, by the delete control or by an
\* AI delete_category, only after a confirmation step: the confirmation dialog
\* for the control, an earlier answer of the assistant for the AI.
C4_NonEmptyDeleteConfirmed ==
    [][LET removesNonEmpty ==
               \E i \in DOMAIN categories :
                   Len(categories[i].items) > 0 /\ categories[i].id \notin CatIds(categories')
       IN  /\ (last'.op = "DeleteCategory" /\ removesNonEmpty) => confirmAction # NULL
           /\ (last'.op = "Response" /\ pending.waiting
                 /\ last'.arg.result.action = "delete_category" /\ removesNonEmpty)
              => \E k \in DOMAIN messages : messages[k].sender = "ai"]_vars

\* C5: an AI merge whose two names match categories leaves the destination
\* with its items followed by the source's, removes the source, leaves every
\* other category as it was and loses no item.
C5_MergeMovesAllItems ==
    [][(last'.op = "Response" /\ pending.waiting
          /\ last'.arg.result.action = "merge_categories") =>
          LET capt == Plain(pending.categories)
              det == last'.arg.result.category_details
              s == FindByName(capt, det.sourceName) + 1
              d == FindByName(capt, det.destinationName) + 1
              new == Plain(categories')
          IN  (s > 0 /\ d > 0) =>
                 /\ TotalItems(new) = TotalItems(capt)
                 /\ \A i \in DOMAIN new : new[i].id # capt[s].id
                 /\ \E i \in DOMAIN new :
                       new[i].id = capt[d].id /\ new[i].items = capt[d].items \o capt[s].items
                 /\ \A k \in DOMAIN capt :
                       (k # s /\ k # d) => \E i \in DOMAIN new : new[i] = capt[k]]_vars

\* C6: no two categories have the same id and no two items of one category
\* have the same id.
C6_IdsUnique ==
    /\ \A i, j \in DOMAIN categories : categories[i].id = categories[j].id => i = j
    /\ \A i \in DOMAIN categories :
          \A k, l \in DOMAIN categories[i].items :
              categories[i].items[k].id = categories[i].items[l].id => k = l

\* C7: the single undo record describes the last recorded UI mutation, and
\* undo reverts that mutation alone: the store is again what the earlier
\* mutations had made of it.
C7_MostRecentWins ==
    [][/\ last'.op \in MutationOps =>
             /\ undoAction'.type = UndoTypeOf(last'.op)
             /\ undoAction'.type \notin {"CATEGORY_ADD", "CATEGORY_DELETE"}
                   => undoAction'.payload.categoryId = last'.arg.categoryId
       /\ (last'.op = "Undo" /\ undoAction # NoUndo) =>
             /\ undoAction' = NoUndo
             /\ Plain(categories') = undoBase]_vars

\* C8: undo with a record present leaves no record; undo with no record (a
\* second undo, or an undo after nothing) changes no state.
C8_UndoOnce ==
    [][last'.op = "Undo" =>
          /\ undoAction' = NoUndo
          /\ undoAction = NoUndo =>
                UNCHANGED <<categories, activeCategoryId, selectedItemId, messages,
                            isLoadingAI, undoAction, pending, storage>>
          /\ undoAction # NoUndo => categories' = Inverse(categories, undoAction)]_vars

\* C8 witness: undo has consumed the record of an item deletion.
C8_Witness ==
    /\ last.op = "Undo"
    /\ last.arg = "ITEM_DELETE"
    /\ undoAction = NoUndo
    /\ Plain(categories) = INITIAL_CATEGORIES

\* C9: an undo record that is neither consumed nor replaced is eventually
\* cleared, and the timer that clears it changes neither the categories nor
\* the active category; an undo after the expiry changes nothing.
C9_RecordExpires ==
    /\ (undoAction # NoUndo) ~> (undoAction = NoUndo)
    /\ [][last'.op = "UndoExpire" =>
             /\ undoAction' = NoUndo
             /\ UNCHANGED <<categories, activeCategoryId>>]_vars
    /\ [][(last.op = "UndoExpire" /\ last'.op = "Undo") =>
             UNCHANGED <<categories, activeCategoryId>>]_vars

\* C9 witness: the timer has cleared the record of an item toggle, which is
\* still applied.
C9_Witness ==
    /\ last.op = "UndoExpire"
    /\ last.arg = "ITEM_TOGGLE"
    /\ undoAction = NoUndo
    /\ Plain(categories) # INITIAL_CATEGORIES

\* C10: a drag-and-drop reorder, with or without a search filter, leaves the
\* active category with the same items, in another order, and every other
\* category as it was.
C10_DragPermutes ==
    [][last'.op = "DragEnd" =>
          /\ Len(categories') = Len(categories)
          /\ \A i \in DOMAIN categories :
                /\ categories'[i].id = categories[i].id
                /\ categories'[i].name = categories[i].name
                /\ IsPermutation(categories[i].items, categories'[i].items)
                /\ categories[i].id # activeCategoryId => categories'[i] = categories[i]]_vars

\* C10 witness: with the filter "la" showing 'Lait' and 'lait', 'Lait' was
\* dropped on 'lait', two places down.
C10_Witness ==
    /\ last.op = "DragEnd"
    /\ last.arg.term = "la"
    /\ last.arg.oldIndex = 0
    /\ last.arg.newIndex = 2
    /\ Len(categories[1].items) = 3
    /\ categories[1].items[3].id = ItemId(1)

(***************************************************************************)
(* Names and contents that are the same up to the case of their letters.   *)
(***************************************************************************)
CaseClasses ==
    { {"Achats", "achats", "ACHATS"}, {"A Faire", "a faire", "A FAIRE"},
      {"Films a voir", "films a voir", "FILMS A VOIR"}, {"Musique", "musique"},
      {"Lait", "lait", "LAIT"}, {"Pain", "pain"}, {"Oeufs", "oeufs"} }

SameIgnoringCase(a, b) == a = b \/ \E cls \in CaseClasses : a \in cls /\ b \in cls

NamesMatch(cats, name) == {i \in DOMAIN cats : SameIgnoringCase(cats[i].name, name)}

\* the response whose handling ends this step was applied without a throw
Applied == last'.op = "Response" /\ pending.waiting /\ messages'[Len(messages')].text = ResponseText

C11_Add(capt, new, items) ==
    /\ Len(new) = Len(capt)
    /\ \A i \in DOMAIN capt :
          /\ Len(new[i].items) >= Len(capt[i].items)
          /\ SubSeq(new[i].items, 1, Len(capt[i].items)) = capt[i].items
          /\ \A k \in (Len(capt[i].items) + 1)..Len(new[i].items) :
                \E n \in DOMAIN items :
                    /\ items[n].content = new[i].items[k].content
                    /\ SameIgnoringCase(items[n].categoryName, capt[i].name)
    /\ \A n \in DOMAIN items :
          NamesMatch(capt, items[n].categoryName) # {} =>
             \E i \in NamesMatch(capt, items[n].categoryName) :
                \E k \in (Len(capt[i].items) + 1)..Len(new[i].items) :
                    new[i].items[k].content = items[n].content

C11_Update(capt, new, items) ==
    /\ Len(new) = Len(capt)
    /\ \A i \in DOMAIN capt :
          /\ Len(new[i].items) = Len(capt[i].items)
          /\ \A k \in DOMAIN capt[i].items :
                new[i].items[k] # capt[i].items[k] =>
                   \E n \in DOMAIN items :
                       /\ SameIgnoringCase(items[n].categoryName, capt[i].name)
                       /\ SameIgnoringCase(items[n].content, capt[i].items[k].content)
    /\ \A n \in DOMAIN items :
          LET hits == {ik \in UNION {{<<i, k>> : k \in DOMAIN capt[i].items} :
                                         i \in NamesMatch(capt, items[n].categoryName)} :
                          SameIgnoringCase(items[n].content, capt[ik[1]].items[ik[2]].content)}
          IN  hits # {} =>
                 \E ik \in hits :
                     new[ik[1]].items[ik[2]] = UpdatedItem(capt[ik[1]].items[ik[2]], items[n])

C11_DeleteItems(capt, new, items) ==
    /\ Len(new) = Len(capt)
    /\ \A i \in DOMAIN capt :
          \A k \in DOMAIN capt[i].items :
              (\A l \in DOMAIN new[i].items : new[i].items[l] # capt[i].items[k]) =>
                 \E n \in DOMAIN items :
                     /\ SameIgnoringCase(items[n].categoryName, capt[i].name)
                     /\ SameIgnoringCase(items[n].content, capt[i].items[k].content)
    /\ \A n \in DOMAIN items :
          NamesMatch(capt, items[n].categoryName) # {} =>
             \E i \in NamesMatch(capt, items[n].categoryName) :
                \A l \in DOMAIN new[i].items :
                    ~SameIgnoringCase(new[i].items[l].content, items[n].content)

C11_DeleteFiltered(capt, new, filter) ==
    LET m == NamesMatch(capt, filter.categoryName)
    IN  IF m = {} THEN new = capt
        ELSE \E i \in m :
                new = [capt EXCEPT ![i].items = SelectSeq(@, LAMBDA it : it.completed # filter.completed)]

C11_Rename(capt, new, det) ==
    new = [i \in DOMAIN capt |->
              IF SameIgnoringCase(capt[i].name, det.name)
              THEN [capt[i] EXCEPT !.name = det.newName] ELSE capt[i]]

C11_DeleteCategory(capt, new, det) ==
    new = SelectSeq(capt, LAMBDA c : ~SameIgnoringCase(c.name, det.name))

C11_Merge(capt, new, det) ==
    (new # capt) <=> (NamesMatch(capt, det.sourceName) # {} /\ NamesMatch(capt, det.destinationName) # {})

\* C11: the AI actions add, update, delete, rename_category, delete_category
\* and merge_categories act on a stored category exactly when its name and
\* the name in the response are the same up to letter case, and update and
\* delete-by-items on an item exactly when its content and the given content
\* are the same up to letter case.
C11_CaseInsensitiveMatching ==
    [][Applied =>
          LET r == last'.arg.result
              capt == Plain(pending.categories)
              new == Plain(categories')
          IN  /\ r.action = "add" => C11_Add(capt, new, r.items)
              /\ r.action = "update" => C11_Update(capt, new, r.items)
              /\ (r.action = "delete" /\ r.filter = NoFilter) => C11_DeleteItems(capt, new, r.items)
              /\ (r.action = "delete" /\ r.filter # NoFilter) => C11_DeleteFiltered(capt, new, r.filter)
              /\ r.action = "rename_category" => C11_Rename(capt, new, r.category_details)
              /\ r.action = "delete_category" => C11_DeleteCategory(capt, new, r.category_details)
              /\ r.action = "merge_categories" => C11_Merge(capt, new, r.category_details)]_vars

\* C11 witness: the model named 'ACHATS' / 'LAIT' and the item 'Lait' of
\* 'Achats' was removed.
C11_Witness ==
    /\ last.op = "Response"
    /\ last.arg.result.action = "delete"
    /\ last.arg.result.filter = NoFilter
    /\ Len(categories) = 3
    /\ categories[1].name = "Achats"
    /\ \A k \in DOMAIN categories[1].items : categories[1].items[k].content # "Lait"
    /\ Len(categories[1].items) = 1

\* the handling of the response that ends this step threw
Threw ==
    /\ pending.waiting
    /\ \/ last'.op = "ResponseFails"
       \/ /\ last'.op = "Response"
          /\ ApplyAction(pending.categories, pending.activeName, last'.arg.result,
                         last'.arg.t, randomDraws).threw

\* C12: when the handling of the response throws, the apology is appended as
\* an AI message and the categories are what they were before the response
\* arrived, in the store and in storage.
C12_ThrowLeavesStore ==
    [][Threw =>
          /\ messages' = Append(messages, [sender |-> "ai", text |-> ApologyText])
          /\ Plain(categories') = Plain(categories)
          /\ storage' = storage]_vars

\* C13: a non-blank message sent while nothing is pending gets exactly one
\* AI message (the response text, the apology or the offline text) and the
\* loading flag comes down again; a page reload ends the conversation and
\* starts an empty one.
C13_EveryMessageAnswered ==
    /\ isLoadingAI ~> ~isLoadingAI
    /\ []((messages # << >> /\ messages[Len(messages)].sender = "user") <=> isLoadingAI)
    /\ [][(last'.op = "SendMessage" /\ ~IsBlank(last'.arg) /\ ~isLoadingAI) =>
             IF aiRef
             THEN /\ messages' = Append(messages, [sender |-> "user", text |-> last'.arg])
                  /\ isLoadingAI'
             ELSE /\ messages' = messages \o << [sender |-> "user", text |-> last'.arg],
                                                [sender |-> "ai", text |-> OfflineText] >>
                  /\ ~isLoadingAI']_vars
    /\ [][(isLoadingAI /\ last'.op # "Reload") =>
             IF last'.op \in {"Response", "ResponseFails"}
             THEN /\ \E text \in {ResponseText, ApologyText} :
                        messages' = Append(messages, [sender |-> "ai", text |-> text])
                  /\ ~isLoadingAI'
             ELSE /\ messages' = messages
                  /\ isLoadingAI']_vars

\* C13 witness: a request was rejected, the apology follows the message and
\* the chat is free again.
C13_Witness ==
    /\ last.op = "ResponseFails"
    /\ Len(messages) = 2
    /\ messages[1].sender = "user"
    /\ messages[2] = [sender |-> "ai", text |-> ApologyText]
    /\ ~isLoadingAI

\* C14: without an AI client a non-blank message is followed at once by the
\* canned offline message; no request is issued, the categories, the active
\* category and the undo record stay as they are and the loading flag is down.
C14_OfflineReply ==
    [][(last'.op = "SendMessage" /\ ~IsBlank(last'.arg) /\ ~aiRef) =>
          /\ messages' = messages \o << [sender |-> "user", text |-> last'.arg],
                                        [sender |-> "ai", text |-> OfflineText] >>
          /\ ~pending'.waiting
          /\ ~isLoadingAI'
          /\ UNCHANGED <<categories, activeCategoryId, undoAction, storage>>]_vars

\* C14 witness: offline, a message was sent while an undo record was pending.
C14_Witness ==
    /\ ~aiRef
    /\ last.op = "SendMessage"
    /\ Len(messages) = 2
    /\ messages[2] = [sender |-> "ai", text |-> OfflineText]
    /\ undoAction # NoUndo
    /\ ~isLoadingAI

\* C15: a key that cannot be read at start-up (the access throws, or the
\* text is not JSON) gives its state the built-in default; when the writes
\* throw, the handlers go on changing the state in memory.
C15_StorageFailure ==
    /\ [](last.op = "Init" =>
             /\ (~storage.available \/ storage.categories = Garbage)
                   => categories = INITIAL_CATEGORIES
             /\ (~storage.available \/ storage.activeCategoryId = Garbage)
                   => activeCategoryId = CatId(1))
    /\ [][(last'.op = "Reload" /\ ~storage.available) =>
             (categories' = INITIAL_CATEGORIES /\ activeCategoryId' = CatId(1))]_vars
    /\ [][~storage.available =>
             /\ storage' = storage
             /\ last'.op = "AddCategory" =>
                   (Len(categories') = Len(categories) + 1
                      /\ categories'[Len(categories')].id = last'.arg)
             /\ last'.op = "DeleteCategory" => last'.arg \notin CatIds(categories')
             /\ last'.op = "AddItem" => TotalItems(categories') > TotalItems(categories)
             /\ last'.op = "DeleteItem" => TotalItems(categories') < TotalItems(categories)
             /\ last'.op \in {"ToggleItem", "UpdateItemNotes"} => categories' # categories
             /\ last'.op \in MutationOps => undoAction'.type = UndoTypeOf(last'.op)
             /\ (last'.op = "Undo" /\ undoAction # NoUndo) =>
                   (categories' = Inverse(categories, undoAction) /\ undoAction' = NoUndo)
             /\ Applied =>
                   Plain(categories') =
                      Plain(ApplyAction(pending.categories, pending.activeName, last'.arg.result,
                                        last'.arg.t, randomDraws).cats)]_vars

\* C15 witness: every access to the storage throws and an item was added
\* to the store all the same.
C15_Witness ==
    /\ ~storage.available
    /\ last.op = "AddItem"
    /\ TotalItems(categories) = 5
    /\ undoAction.type = "ITEM_ADD"

\* C16: undo of a notes update gives the item the notes it had before the
\* update, absent notes being absent again.
C16_NotesUndoExact ==
    [][(last'.op = "Undo" /\ undoAction.type = "ITEM_NOTES_UPDATE") =>
          /\ Len(categories') = Len(undoBase)
          /\ \A i \in DOMAIN undoBase :
                /\ Len(categories'[i].items) = Len(undoBase[i].items)
                /\ \A k \in DOMAIN undoBase[i].items :
                      (undoBase[i].id = undoAction.payload.categoryId
                         /\ undoBase[i].items[k].id = undoAction.payload.itemId)
                      => categories'[i].items[k].notes = undoBase[i].items[k].notes]_vars

UniqueIds(cats) ==
    /\ \A i, j \in DOMAIN cats : cats[i].id = cats[j].id => i = j
    /\ \A i \in DOMAIN cats :
          \A k, l \in DOMAIN cats[i].items : cats[i].items[k].id = cats[i].items[l].id => k = l

\* C17: undo of an item deletion puts the item back, with its fields, at the
\* index it had in its category; undo of a category deletion puts the
\* category back, with its items in order, at the index it had.
C17_DeleteUndoIndex ==
    [][last'.op = "Undo" =>
          LET p == undoAction.payload
              new == Plain(categories')
          IN  /\ undoAction.type = "ITEM_DELETE" =>
                    /\ \E i \in DOMAIN undoBase :
                          /\ undoBase[i].id = p.categoryId
                          /\ undoBase[i].items[p.index + 1] = p.item
                          /\ new[i].id = p.categoryId
                          /\ new[i].items[p.index + 1] = p.item
                    /\ UniqueIds(undoBase) => new = undoBase
              /\ undoAction.type = "CATEGORY_DELETE" =>
                    /\ undoBase[p.index + 1] = [p.category EXCEPT !.ref = 0]
                    /\ new[p.index + 1] = undoBase[p.index + 1]
                    /\ UniqueIds(undoBase) => new = undoBase]_vars

\* C17 witness: the first category was deleted while it was active, and undo
\* has put it back in front of the two others.
C17_Witness ==
    /\ last.op = "Undo"
    /\ last.arg = "CATEGORY_DELETE"
    /\ Plain(categories) = INITIAL_CATEGORIES
    /\ activeCategoryId = CatId(2)
    /\ ops = 2

\* the steps whose handler calls setActiveCategoryId itself
SetsActive ==
    \/ last'.op \in {"SelectCategory", "AddCategory", "Reload"}
    \/ last'.op = "DeleteCategory" /\ last'.arg = activeCategoryId
    \/ last'.op = "Response" /\ last'.arg.result.action \in {"create_category", "delete_category"}

\* C18: after the repair effect the active id is null exactly when there is
\* no category; an id that is null or names no category has been replaced by
\* the id of the first category, and an id that names one is left alone.
C18_RepairEffect ==
    /\ [](Mounted => (activeCategoryId = NULL <=> categories = << >>))
    /\ [][~SetsActive =>
             IF activeCategoryId \in CatIds(categories')
             THEN activeCategoryId' = activeCategoryId
             ELSE activeCategoryId' = (IF Len(categories') > 0 THEN categories'[1].id ELSE NULL)]_vars

\* C18 witness: the three categories were deleted and the active id is null.
C18_Witness ==
    /\ categories = << >>
    /\ activeCategoryId = NULL
    /\ last.op = "DeleteCategory"

\* C19: a response whose action is chat, query or confirm_add leaves the
\* categories and the active category as they are when it is applied; the
\* only change to the store is the AI message appended to the chat.
C19_ChatLeavesStore ==
    [][(Applied /\ last'.arg.result.action \in {"chat", "query", "confirm_add"}) =>
          /\ Plain(categories') = Plain(categories)
          /\ activeCategoryId' = activeCategoryId
          /\ Len(messages') = Len(messages) + 1
          /\ SubSeq(messages', 1, Len(messages)) = messages
          /\ messages'[Len(messages')].sender = "ai"]_vars

\* C20: with a working storage, after every operation and its effects the
\* texts under 'categories' and 'activeCategoryId' decode to the categories
\* and the active category in memory, so a reload restores exactly these two
\* (a null active category included) and starts with no undo record, no chat
\* message and no selected item.
C20_StorageRoundTrip ==
    /\ []((Mounted /\ storage.available) =>
             /\ ReadCategories(storage) = Plain(categories)
             /\ ReadActiveCategoryId(storage) = activeCategoryId)
    /\ [][(last'.op = "Reload" /\ storage.available) =>
             /\ Plain(categories') = Plain(categories)
             /\ activeCategoryId' = activeCategoryId
             /\ undoAction' = NoUndo
             /\ messages' = << >>
             /\ selectedItemId' = NULL]_vars

\* C21: an AI create_category whose name equals, ignoring case, the name of
\* a category of the store adds no category and keeps the active category;
\* otherwise one empty category of that name is appended at the end and
\* becomes the active category.
C21_CreateCategory ==
    [][(Applied /\ last'.arg.result.action = "create_category") =>
          LET name == last'.arg.result.category_details.name
              cur == Plain(categories)
              new == Plain(categories')
          IN  IF NamesMatch(cur, name) # {}
              THEN /\ \A i \in DOMAIN new : \E j \in DOMAIN cur : new[i] = cur[j]
                   /\ Len(new) <= Len(cur)
                   /\ activeCategoryId' = activeCategoryId
              ELSE /\ Len(new) = Len(cur) + 1
                   /\ SubSeq(new, 1, Len(cur)) = cur
                   /\ new[Len(new)].name = name
                   /\ new[Len(new)].items = << >>
                   /\ activeCategoryId' = new[Len(new)].id]_vars

\* C22: once a response has been parsed the undo record is null whatever
\* the action, so an undo asked for after the response changes nothing: no
\* earlier record is applied to the replaced collection and what the AI
\* did cannot be undone.
C22_ResponseClearsUndo ==
    /\ [][(last'.op = "Response" /\ pending.waiting) => undoAction' = NoUndo]_vars
    /\ [][(last.op = "Response" /\ last'.op = "Undo") =>
             /\ Plain(categories') = Plain(categories)
             /\ activeCategoryId' = activeCategoryId
             /\ undoAction' = NoUndo]_vars

\* C22 witness: an item was added from the UI (an undo record), then the AI
\* added another one; no undo record is left.
C22_Witness ==
    /\ last.op = "Response"
    /\ last.arg.result.action = "add"
    /\ TotalItems(categories) = 6
    /\ undoAction = NoUndo

\* C23: a send with blank text, or while the loading flag is up, appends no
\* message, issues no request and changes nothing; a request in flight is
\* never joined or replaced by another one.
C23_OneRequestInFlight ==
    /\ [](pending.waiting <=> isLoadingAI)
    /\ [][(last'.op = "SendMessage" /\ (IsBlank(last'.arg) \/ isLoadingAI)) =>
             UNCHANGED <<categories, activeCategoryId, selectedItemId, messages, isLoadingAI,
                         undoAction, undoBase, aiRef, pending, storage>>]_vars
    /\ [][pending.waiting => (pending' = pending \/ ~pending'.waiting)]_vars

\* C23 witness: a send arrived while a request was in flight; the chat still
\* holds the one message of that request.
C23_Witness ==
    /\ last.op = "SendMessage"
    /\ last.arg = "   "
    /\ isLoadingAI
    /\ pending.waiting
    /\ Len(messages) = 1

\* the item of the active category the notes editor belongs to
EditedItem(cats, act, itemId) ==
    LET items == CategoryById(cats, act).items
    IN  items[FindIndex([n \in DOMAIN items |-> items[n].id = itemId]) + 1]

\* C24: when the notes editor loses focus holding the text it was opened
\* with (the item's notes, or the empty text for an item without notes),
\* neither the categories nor the undo record change.
C24_BlurWithoutChange ==
    [][(last'.op \in {"UpdateItemNotes", "NotesBlurSame"}) =>
          LET before == EditedItem(categories, activeCategoryId, selectedItemId)
              text == EditedItem(categories', activeCategoryId, selectedItemId).notes
          IN  text = NotesOrEmpty(before) =>
                 /\ Plain(categories') = Plain(categories)
                 /\ undoAction' = undoAction]_vars

\* C25: undo of a category just added from the UI, or of the active
\* category just deleted from the UI, brings the active category back to
\* the one that was active before the add or the delete.
C25_UndoRestoresActive ==
    [][(last'.op = "Undo" /\ undoAction # NoUndo
          /\ \/ last.op = "AddCategory"
             \/ last.op = "DeleteCategory" /\ last.arg = last.was) =>
          activeCategoryId' = last.was]_vars

\* the first category, in collection order, whose name is `name` up to
\* letter case; 0 when there is none
FirstNamed(cats, name) ==
    IF NamesMatch(cats, name) = {} THEN 0
    ELSE CHOOSE i \in NamesMatch(cats, name) : \A j \in NamesMatch(cats, name) : i <= j

\* the elements of seq at the positions outside `skip`, in order
RECURSIVE Without(_, _)
Without(seq, skip) ==
    IF seq = << >> THEN << >>
    ELSE IF Len(seq) \in skip
         THEN Without(SubSeq(seq, 1, Len(seq) - 1), skip)
         ELSE Append(Without(SubSeq(seq, 1, Len(seq) - 1), skip), seq[Len(seq)])

\* what C26 says of the response `r` that turns the categories `base` into `new`
C26_Holds(base, new, r) ==
    LET det == r.category_details
        targets ==
            IF r.action = "delete" /\ r.filter # NoFilter
            THEN {FirstNamed(base, r.filter.categoryName)}
            ELSE {FirstNamed(base, r.items[n].categoryName) : n \in DOMAIN r.items}
    IN  /\ r.action \in {"add", "update", "delete"} =>
              /\ Len(new) = Len(base)
              /\ \A i \in DOMAIN base : i \notin targets => new[i] = base[i]
        /\ r.action = "rename_category" =>
              new = [i \in DOMAIN base |->
                        IF SameIgnoringCase(base[i].name, det.name)
                        THEN [base[i] EXCEPT !.name = det.newName] ELSE base[i]]
        /\ r.action = "delete_category" =>
              new = SelectSeq(base, LAMBDA c : ~SameIgnoringCase(c.name, det.name))
        /\ r.action = "merge_categories" =>
              LET src == FirstNamed(base, det.sourceName)
                  dst == FirstNamed(base, det.destinationName)
                  at == IF src < dst THEN dst - 1 ELSE dst
              IN  IF src = 0 \/ dst = 0 THEN new = base
                  ELSE IF src = dst THEN new = Without(base, {src})
                  ELSE /\ Len(new) = Len(base) - 1
                       /\ Without(new, {at}) = Without(base, {src, dst})
                       /\ new[at].name = base[dst].name

\* C26: among categories whose names are equal up to letter case, AI add,
\* update, delete (by items or by filter) and merge touch only the first in
\* collection order, rename_category renames all of them and delete_category
\* removes all of them; a category whose name does not match is unchanged.
C26_DuplicateNames ==
    [][Applied => C26_Holds(Plain(categories), Plain(categories'), last'.arg.result)]_vars

\* the positions of the items whose content is `content` up to letter case
ContentMatches(items, content) ==
    {k \in DOMAIN items : SameIgnoringCase(items[k].content, content)}

\* C27, update of one entry: the first matching item of the target category
\* takes the values the entry gives and keeps its id, its place and the rest
C27_UpdateOne(cats, e) ==
    LET i == FirstNamed(cats, e.categoryName)
        hits == IF i = 0 THEN {} ELSE ContentMatches(cats[i].items, e.content)
    IN  IF hits = {} THEN cats
        ELSE LET k == CHOOSE k \in hits : \A l \in hits : k <= l
                 old == cats[i].items[k]
             IN  [cats EXCEPT ![i].items[k] =
                     [id |-> old.id,
                      content |-> IF e.newContent = UNDEF THEN old.content ELSE e.newContent,
                      completed |-> IF e.completed = {} THEN old.completed ELSE TRUE \in e.completed,
                      dueDate |-> IF e.dueDate = UNDEF THEN old.dueDate ELSE e.dueDate,
                      notes |-> IF e.notes = UNDEF THEN old.notes ELSE e.notes]]

\* C27, delete of one entry: every matching item of the target category goes
C27_DeleteOne(cats, e) ==
    LET i == FirstNamed(cats, e.categoryName)
    IN  IF i = 0 THEN cats
        ELSE [cats EXCEPT ![i].items =
                 Without(@, ContentMatches(cats[i].items, e.content))]

\* the entries of a response taken one after the other
RECURSIVE C27_Each(_, _, _)
C27_Each(cats, items, update) ==
    IF items = << >> THEN cats
    ELSE C27_Each(IF update THEN C27_UpdateOne(cats, Head(items))
                            ELSE C27_DeleteOne(cats, Head(items)),
                  Tail(items), update)

\* what C27 says of the response `r` that turns the categories `base` into
\* `new`: every category the response names is found in `new` as C27 has it
C27_Holds(base, new, r) ==
    LET byFilter == r.action = "delete" /\ r.filter # NoFilter
        i0 == FirstNamed(base, r.filter.categoryName)
        expected ==
            IF byFilter
            THEN IF i0 = 0 THEN base
                 ELSE [base EXCEPT ![i0].items =
                          Without(@, {k \in DOMAIN base[i0].items :
                                         base[i0].items[k].completed = r.filter.completed})]
            ELSE C27_Each(base, r.items, r.action = "update")
        targets == IF byFilter THEN {i0}
                   ELSE {FirstNamed(base, r.items[n].categoryName) : n \in DOMAIN r.items}
    IN  r.action \in {"update", "delete"} =>
           \A i \in targets \ {0} : \E j \in DOMAIN new : new[j] = expected[i]

\* C27: an AI update changes only the first matching item of the target
\* category, which keeps its id, its position and every field the response
\* gives no value for; an AI delete by items removes every matching item of
\* the target category, an AI delete by filter exactly the items whose
\* completed flag is the filter's, the other items keeping their order.
C27_UpdateAndDelete ==
    [][Applied => C27_Holds(Plain(categories), Plain(categories'), last'.arg.result)]_vars

\* the items of the collection, whatever their category
AllItems(cats) == UNION {{cats[i].items[k] : k \in DOMAIN cats[i].items} : i \in DOMAIN cats}

\* C28: in an AI add, update or delete by items, an entry whose category
\* name matches no category of the store is skipped: the response is
\* applied without error and its text is appended, no category appears, no
\* item comes from that entry, and the entries that do match are applied.
C28_UnknownCategorySkipped ==
    [][LET r == last'.arg.result
           cur == Plain(categories)
           new == Plain(categories')
           known(e) == NamesMatch(cur, e.categoryName) # {}
           fresh == AllItems(new) \ AllItems(cur)
       IN  (/\ last'.op = "Response" /\ pending.waiting
            /\ r.action \in {"add", "update", "delete"} /\ r.filter = NoFilter
            /\ \A n \in DOMAIN r.items : r.items[n].categoryName # UNDEF /\ r.items[n].content # UNDEF
            /\ \E n \in DOMAIN r.items : ~known(r.items[n]))
           => /\ Applied
              /\ CatIds(new) \subseteq CatIds(cur)
              /\ \A n \in DOMAIN r.items :
                    IF known(r.items[n])
                    THEN r.action = "add" =>
                            \E it \in fresh :
                               /\ it.content = r.items[n].content
                               /\ it \in AllItems(<<new[FirstNamed(cur, r.items[n].categoryName)]>>)
                    ELSE \A it \in fresh : it.content # r.items[n].content]_vars

\* C29: an item operation of the UI (add, toggle, delete, notes update,
\* drag) and its undo keep the number and the order of the categories, the
\* id, name and icon of each, and the items of every category whose id is
\* not that of the category operated on; a drag dropped on nothing or on
\* the dragged item changes nothing and records no undo.
C29_ItemOpsFrame ==
    /\ [][LET undoes == last'.op = "Undo" /\ undoAction.type \in
                           {"ITEM_ADD", "ITEM_TOGGLE", "ITEM_DELETE", "ITEM_NOTES_UPDATE", "ITEM_DRAG"}
              target == IF undoes THEN undoAction.payload.categoryId ELSE activeCategoryId
          IN  (undoes \/ last'.op \in {"AddItem", "ToggleItem", "DeleteItem", "UpdateItemNotes",
                                       "NotesBlurSame", "DragEnd"}) =>
                 /\ Len(categories') = Len(categories)
                 /\ \A i \in DOMAIN categories :
                       /\ categories'[i].id = categories[i].id
                       /\ categories'[i].name = categories[i].name
                       /\ categories'[i].icon = categories[i].icon
                       /\ categories[i].id # target => categories'[i].items = categories[i].items]_vars
    /\ [][last'.op = "DragNone" =>
             UNCHANGED <<categories, activeCategoryId, selectedItemId, undoAction, undoBase, storage>>]_vars

\* C29 witness: an item was added to 'Achats' and the add was undone; the
\* three categories are as they were at the start.
C29_Witness ==
    /\ last.op = "Undo"
    /\ last.arg = "ITEM_ADD"
    /\ Plain(categories) = INITIAL_CATEGORIES
    /\ undoAction = NoUndo

\* C30: the chat is a list of user messages each followed by at most one AI
\* message: user and AI messages alternate from the first, a user message,
\* on; within a page session messages are only appended, none is removed
\* or altered.
C30_ChatAlternates ==
    /\ [](\A k \in DOMAIN messages :
             messages[k].sender = (IF k % 2 = 1 THEN "user" ELSE "ai"))
    /\ [][last'.op # "Reload" =>
             /\ Len(messages') >= Len(messages)
             /\ SubSeq(messages', 1, Len(messages)) = messages]_vars
    /\ [][(Len(messages') > Len(messages) /\ messages'[Len(messages')].sender = "ai") =>
             \/ messages # << >> /\ messages[Len(messages)].sender = "user"
                  /\ Len(messages') = Len(messages) + 1
             \/ Len(messages') = Len(messages) + 2
                  /\ messages'[Len(messages) + 1].sender = "user"]_vars

\* C30 witness: a message was sent, the model answered, and the chat holds
\* the message followed by the answer.
C30_Witness ==
    /\ last.op = "Response"
    /\ Len(messages) = 2
    /\ messages[1] = [sender |-> "user", text |-> "ajoute des oeufs"]
    /\ messages[2] = [sender |-> "ai", text |-> ResponseText]

====
